---- MODULE Spec2Model ----
(***************************************************************************)
(* Model of the Hailo inference wrapper: the C++ session class             *)
(* hailo_wrapper::HailoInference (hailo_inference.cpp/.hpp) and the C      *)
(* boundary (hailo_c_api.cpp/.h).                                          *)
(*                                                                         *)
(* Floats are modelled in fixed point: a float value v is the integer      *)
(* 10*v (coordinates, confidences and the raw class value are "tenths").   *)
(* All arithmetic of iou() is exact on these values; areas are then in     *)
(* hundredths and ratios are unchanged.  NaN and infinities are outside    *)
(* the modelled float domain.                                              *)
(***************************************************************************)
EXTENDS Integers, Sequences, FiniteSets, TLC

\* ------------------------------------------------------------------------
\* Bounds of the model
\* ------------------------------------------------------------------------
MaxRecords == 3
MaxSessions == 2
MaxCalls == 3

\* ------------------------------------------------------------------------
\* Program constants
\* ------------------------------------------------------------------------
\* hailo_inference.hpp:62  m_confidence_threshold = 0.5f  (tenths)
m_confidence_threshold == 5
\* hailo_inference.hpp:63  m_nms_threshold = 0.45f  (hundredths)
m_nms_threshold == 45
\* hailo_inference.cpp:150  detection_size = 6 floats per record
detection_size == 6
\* sizeof(float), hailo_inference.cpp:147
sizeof_float == 4

\* ------------------------------------------------------------------------
\* Detection post-processing (pure functions)
\* ------------------------------------------------------------------------
Max(a, b) == IF a < b THEN b ELSE a
Min(a, b) == IF b < a THEN b ELSE a

\* static_cast<int>(float): truncation toward zero of a value given in tenths
FloatToInt(f) == IF f >= 0 THEN f \div 10 ELSE -((-f) \div 10)

\* struct Detection
Detection(x1, y1, x2, y2, c, k) ==
    [x_min |-> x1, y_min |-> y1, x_max |-> x2, y_max |-> y2,
     confidence |-> c, class_id |-> k]

intersection(a, b) ==
    LET x1 == Max(a.x_min, b.x_min)
        y1 == Max(a.y_min, b.y_min)
        x2 == Min(a.x_max, b.x_max)
        y2 == Min(a.y_max, b.y_max)
    IN  Max(0, x2 - x1) * Max(0, y2 - y1)

union_area(a, b) ==
    LET area_a == (a.x_max - a.x_min) * (a.y_max - a.y_min)
        area_b == (b.x_max - b.x_min) * (b.y_max - b.y_min)
    IN  area_a + area_b - intersection(a, b)

\* iou(a, b) as the exact ratio <<numerator, denominator>>, denominator > 0
iou_union_not_reduced(a, b) ==
    LET sum == union_area(a, b) + intersection(a, b) IN
    IF sum > 0 THEN <<intersection(a, b), sum>> ELSE <<0, 1>>
iou(a, b) ==
    IF union_area(a, b) > 0
    THEN <<intersection(a, b), union_area(a, b)>>
    ELSE <<0, 1>>

\* iou(...) > m_nms_threshold, on the exact ratio
IouAbove(r) == r[1] * 100 > m_nms_threshold * r[2]

\* A raw output buffer: `size` bytes, of which `data` are the complete floats
RawBuffer(floats, extraBytes) ==
    [size |-> sizeof_float * Len(floats) + extraBytes, data |-> floats]

num_floats(output) == output.size \div sizeof_float
num_detections(output) == num_floats(output) \div detection_size

\* One record of the decode loop (i is the 0-based loop index)
DecodeAt(output, i) ==
    LET offset == i * detection_size
    IN  Detection(output.data[offset + 1], output.data[offset + 2],
                  output.data[offset + 3], output.data[offset + 4],
                  output.data[offset + 5], FloatToInt(output.data[offset + 6]))

Decoded(output) == [i \in 1..num_detections(output) |-> DecodeAt(output, i - 1)]

\* if (det.confidence >= m_confidence_threshold) detections.push_back(det)
KeepAll(det) == TRUE
Keep(det) == det.confidence >= m_confidence_threshold

Filtered(output) == SelectSeq(Decoded(output), Keep)

\* std::sort with comparator a.confidence > b.confidence: every arrangement
\* of the elements that is non-increasing in confidence is a possible result
\* (std::sort is not stable: the order of ties is unspecified).
Permutation(s, p) == [i \in 1..Len(s) |-> s[p[i]]]
Bijections(n) == {p \in [1..n -> 1..n] : \A i, j \in 1..n : i # j => p[i] # p[j]}
IsSortedAnyOrder(s) == TRUE
IsSortedDesc(s) == \A i \in 1..(Len(s) - 1) : ~(s[i + 1].confidence > s[i].confidence)
SortOutcomes(s) ==
    {t \in {Permutation(s, p) : p \in Bijections(Len(s))} : IsSortedDesc(t)}

\* Inner loop of NMS: for (j = i + 1; j < size; j++)
RECURSIVE SuppressLoopAnyClass(_, _, _, _)
SuppressLoopAnyClass(dets, i, j, suppressed) ==
    IF j > Len(dets) THEN suppressed
    ELSE IF j \in suppressed THEN SuppressLoopAnyClass(dets, i, j + 1, suppressed)
    ELSE IF IouAbove(iou(dets[i], dets[j]))
         THEN SuppressLoopAnyClass(dets, i, j + 1, suppressed \cup {j})
         ELSE SuppressLoopAnyClass(dets, i, j + 1, suppressed)
RECURSIVE SuppressLoop(_, _, _, _)
SuppressLoop(dets, i, j, suppressed) ==
    IF j > Len(dets) THEN suppressed
    ELSE IF j \in suppressed THEN SuppressLoop(dets, i, j + 1, suppressed)
    ELSE IF dets[i].class_id = dets[j].class_id /\ IouAbove(iou(dets[i], dets[j]))
         THEN SuppressLoop(dets, i, j + 1, suppressed \cup {j})
         ELSE SuppressLoop(dets, i, j + 1, suppressed)

\* Outer loop of NMS: for (i = 0; i < size; i++)
RECURSIVE NmsLoop(_, _, _, _)
NmsLoop(dets, i, suppressed, nms_detections) ==
    IF i > Len(dets) THEN nms_detections
    ELSE IF i \in suppressed THEN NmsLoop(dets, i + 1, suppressed, nms_detections)
    ELSE NmsLoop(dets, i + 1, SuppressLoop(dets, i, i + 1, suppressed),
                 Append(nms_detections, dets[i]))

Nms(dets) == NmsLoop(dets, 1, {}, <<>>)

\* HailoInference::parseDetections: the set of lists it can return
parseDetections(output) == {Nms(s) : s \in SortOutcomes(Filtered(output))}

\* ------------------------------------------------------------------------
\* Raw records and buffers used as inputs
\* ------------------------------------------------------------------------
BoxA == <<0, 0, 100, 100>>
BoxB == <<10, 10, 90, 90>>
BoxC == <<500, 500, 600, 600>>
BoxE == <<0, 0, 90, 50>>
BoxZ == <<50, 50, 50, 50>>

Rec(box, c, k) == box \o <<c, k>>

RawRecords ==
    { Rec(BoxA, 9, 0),    \* spec example, record 1
      Rec(BoxB, 8, 0),    \* spec example, record 2: IoU 0.64 with record 1
      Rec(BoxC, 7, 10),   \* spec example, record 3: class 1, disjoint
      Rec(BoxA, 9, 10),   \* same box as record 1, class 1, tied confidence
      Rec(BoxA, 8, 0),    \* same box as record 1, lower confidence
      Rec(BoxE, 5, 5),    \* confidence exactly 0.5, raw class 0.5, IoU 0.45 with A
      Rec(BoxB, 4, 0),    \* below the confidence threshold
      Rec(BoxZ, 9, 0) }   \* zero-area box: union 0 with itself

RECURSIVE Concat(_)
Concat(ss) == IF ss = <<>> THEN <<>> ELSE Head(ss) \o Concat(Tail(ss))

RecordLists(n) == UNION {[1..k -> RawRecords] : k \in 0..n}

\* every buffer of up to MaxRecords records, with or without an incomplete tail
RawBuffers ==
    {RawBuffer(Concat(rs), 0) : rs \in RecordLists(MaxRecords)}
    \cup {RawBuffer(Concat(rs) \o <<7, 7>>, 3) : rs \in RecordLists(MaxRecords)}

\* ------------------------------------------------------------------------
\* Sessions, threads and the C boundary
\* ------------------------------------------------------------------------
Threads == {"A", "B"}
Sessions == 1..MaxSessions
\* a handle is a session address, or the null pointer
NullHandle == 0
\* hailo status of a successful hardware-layer call
HAILO_SUCCESS == 0
FailureStatuses == {4}
Statuses == {HAILO_SUCCESS} \cup FailureStatuses

\* struct InputInfo / hailo_input_info_t
InputInfo(w, h, c, fs) == [width |-> w, height |-> h, channels |-> c, frame_size |-> fs]
ZeroInfo == InputInfo(0, 0, 0, 0)

\* The compiled models the hardware layer can load: input shape, input frame
\* size and output frame size are properties of the model file.
HefPaths == {"a.hef", "b.hef"}
HefInput(path) == IF path = "a.hef" THEN InputInfo(2, 2, 3, 12) ELSE InputInfo(1, 1, 3, 3)
HefOutputSize(path) == IF path = "a.hef" THEN 72 ELSE 59

\* What the hardware can leave in an output buffer of the given byte size
HwOutputs(size) ==
    IF size = 72
    THEN { RawBuffer(Rec(BoxA, 9, 0) \o Rec(BoxB, 8, 0) \o Rec(BoxC, 7, 10), 0),
           RawBuffer(Rec(BoxA, 9, 0) \o Rec(BoxE, 5, 5) \o Rec(BoxC, 7, 10), 0) }
    ELSE { RawBuffer(Rec(BoxB, 4, 0) \o Rec(BoxA, 8, 0) \o <<7, 7>>, 3),
           RawBuffer(Rec(BoxZ, 9, 0) \o Rec(BoxZ, 9, 0) \o <<7, 7>>, 3) }

\* std::vector<uint8_t> output_buffer(m_output_size): value-initialised bytes
ZeroBuffer(size) == [size |-> size, data |-> [i \in 1..(size \div sizeof_float) |-> 0]]
NoBuffer == [size |-> 0, data |-> <<>>]

InputSizes == {3, 12}
Capacities == (0 - 1)..MaxRecords

\* error messages: the pieces of the concatenated string
NoError == <<>>
MsgInvalidHandle == <<"Invalid handle">>
MsgStatus(prefix, status) == <<prefix, status>>
MsgSizeMismatch(expected, got) == <<"Input size mismatch: expected ", expected, ", got ", got>>
MsgText(text) == <<text>>

\* exceptions thrown by the session class
RuntimeError(msg) == [type |-> "std::runtime_error", what |-> msg]
\* catch (const std::exception& e)
CatchesNothing(exc) == FALSE
Catches(exc) == exc.type \in {"std::exception", "std::runtime_error"}

NoBuf == <<>>
\* the members of HailoInference (a resource member is TRUE while it is held);
\* bind_in / bind_out are the buffers m_bindings refers to
BlankSession ==
    [st |-> "unalloc", m_vdevice |-> FALSE, m_infer_model |-> FALSE,
     m_configured_model |-> FALSE, m_bindings |-> FALSE, m_input_info |-> ZeroInfo,
     m_output_size |-> 0, bind_in |-> NoBuf, bind_out |-> NoBuf]

\* the caller's output array: one slot more than any capacity passed
Unwritten == [written |-> FALSE, det |-> Detection(0, 0, 0, 0, 0, 0)]
Written(det) == [written |-> TRUE, det |-> det]
OutArray == [i \in 1..(MaxRecords + 1) |-> Unwritten]

NoRan == [in |-> NoBuf, out |-> NoBuf]
\* `shared` is history: whether, at any moment of the call, another thread
\* was inside a detect on the same session
NoCall == [op |-> "none", id |-> 0, h |-> NullHandle, size |-> 0, steps |-> <<>>,
           ran |-> NoRan, shared |-> FALSE]
NoRet == [op |-> "none", id |-> 0, h |-> NullHandle, val |-> 0, str |-> NoError,
          info |-> ZeroInfo, arr |-> <<>>, err |-> NoError, ub |-> FALSE,
          dets |-> <<>>, raw |-> NoBuffer, steps |-> <<>>, size |-> 0, cap |-> 0,
          ran |-> NoRan, eng |-> 0, dead |-> FALSE, shared |-> FALSE]

VARIABLES
    heap,          \* the HailoInference objects, by address
    pc,            \* per thread: where it is inside a boundary call
    call,          \* per thread: the call in progress (arguments and locals)
    ret,           \* per thread: what its last finished call returned
    g_last_error,  \* per thread: the thread_local error string
    last_fail,     \* per thread: message of its most recent failing call (history)
    outbuf,        \* per thread: the output_buffer local of its detect() call
    ncall,         \* number of boundary calls started
    crashed        \* "no", or why the process ended ("ub", "uncaught")

vars == <<heap, pc, call, ret, g_last_error, last_fail, outbuf, ncall, crashed>>

Init ==
    /\ heap = [s \in Sessions |-> BlankSession]
    /\ pc = [t \in Threads |-> "idle"]
    /\ call = [t \in Threads |-> NoCall]
    /\ ret = [t \in Threads |-> NoRet]
    /\ g_last_error = [t \in Threads |-> NoError]
    /\ last_fail = [t \in Threads |-> NoError]
    /\ outbuf = [t \in Threads |-> NoBuffer]
    /\ ncall = 0
    /\ crashed = "no"

\* handles a caller can hold: null, or any address hailo_create has returned
KnownHandles == {NullHandle} \cup {s \in Sessions : heap[s].st \in {"ready", "freed"}}

\* the identity of the buffers of thread t's current call
BufOf(t) == <<t, call[t].id>>
\* a bound buffer is live while the call that owns it is still running
BufLive(b) == b # NoBuf /\ pc[b[1]] # "idle" /\ call[b[1]].id = b[2]

CanStart(t) == crashed = "no" /\ pc[t] = "idle" /\ ncall < MaxCalls
Running(t, where) == crashed = "no" /\ pc[t] = where

\* static void set_error(const std::string& msg) { g_last_error = msg; }
set_error_shared(slots, t, msg) == [u \in Threads |-> msg]
set_error_dropped(slots, t, msg) == slots
set_error(slots, t, msg) == [slots EXCEPT ![t] = msg]

\* ~HailoInference(): the members release what they hold
DestructKeepsState(session, st) == [BlankSession EXCEPT !.st = session.st]
DestructLeaky(session, st) == [session EXCEPT !.st = st]
Destruct(session, st) == [BlankSession EXCEPT !.st = st]

\* a boundary call returns r to its caller
Return(t, r) ==
    /\ pc' = [pc EXCEPT ![t] = "idle"]
    /\ call' = [call EXCEPT ![t] = NoCall]
    /\ ret' = [ret EXCEPT ![t] = r]

\* a boundary call returns without having recorded an error
ReturnOkClears(t, r) ==
    /\ Return(t, r)
    /\ g_last_error' = [g_last_error EXCEPT ![t] = NoError]
    /\ UNCHANGED last_fail
ReturnOk(t, r) ==
    /\ Return(t, r)
    /\ UNCHANGED <<g_last_error, last_fail>>

\* a boundary call records msg and returns the sentinel in r
ReturnError(t, r, msg) ==
    /\ Return(t, [r EXCEPT !.err = msg])
    /\ g_last_error' = set_error(g_last_error, t, msg)
    /\ last_fail' = [last_fail EXCEPT ![t] = msg]

\* an exception leaves the session code inside a try block of the boundary:
\* caught, or std::terminate
Throw(t, r, exc) ==
    IF Catches(exc)
    THEN ReturnError(t, r, exc.what) /\ UNCHANGED crashed
    ELSE /\ crashed' = "uncaught"
         /\ UNCHANGED <<pc, call, ret, g_last_error, last_fail>>

\* the process dies of undefined behaviour
Crash == crashed' = "ub" /\ UNCHANGED <<pc, call, ret, g_last_error, last_fail>>

Count == ncall' = ncall + 1

\* the result record of a call that runs in one step
Atomic(op, h, val) ==
    [NoRet EXCEPT !.op = op, !.id = ncall + 1, !.h = h, !.val = val, !.steps = <<op>>]

\* the result record of thread t's call in progress
Result(t, val) ==
    [NoRet EXCEPT !.op = call[t].op, !.id = call[t].id, !.h = call[t].h, !.val = val,
                  !.size = call[t].size,
                  !.steps = Append(call[t].steps, pc[t]), !.ran = call[t].ran,
                  !.shared = call[t].shared]

Goto(t, where) ==
    /\ pc' = [pc EXCEPT ![t] = where]
    /\ call' = [call EXCEPT ![t].steps = Append(@, pc[t])]
    /\ UNCHANGED <<ret, g_last_error, last_fail, ncall, crashed>>

\* ---------------- hailo_create / HailoInference::create ----------------
\* the chain of hardware-layer calls, in the order create makes them
CreateSteps == <<"vdevice", "infer_model", "configure", "bindings", "input", "output">>

\* the text create puts in front of the numeric status when a step fails
CreateFailure(step) ==
    CASE step = "vdevice" -> "Failed to create VDevice: "
      [] step = "infer_model" -> "Failed to create InferModel: "
      [] step = "configure" -> "Failed to configure model: "
      [] step = "bindings" -> "Failed to create bindings: "
      [] step = "input" -> "Failed to get input stream: "
      [] step = "output" -> "Failed to get output stream: "

\* what a successful step stores in the engine
Acquire(engine, step, path) ==
    CASE step = "vdevice" -> [engine EXCEPT !.m_vdevice = TRUE]
      [] step = "infer_model" -> [engine EXCEPT !.m_infer_model = TRUE]
      [] step = "configure" -> [engine EXCEPT !.m_configured_model = TRUE]
      [] step = "bindings" -> [engine EXCEPT !.m_bindings = TRUE]
      [] step = "input" -> [engine EXCEPT !.m_input_info = HefInput(path)]
      [] step = "output" -> [engine EXCEPT !.m_output_size = HefOutputSize(path)]

\* the chain from step k on; the hardware layer fails step failAt (0: none)
RECURSIVE CreateChain(_, _, _, _)
CreateChain(engine, path, k, failAt) ==
    IF k > Len(CreateSteps) THEN [threw |-> FALSE, engine |-> engine, at |-> 0]
    ELSE IF k = failAt THEN [threw |-> TRUE, engine |-> engine, at |-> k]
    ELSE CreateChain(Acquire(engine, CreateSteps[k], path), path, k + 1, failAt)

\* HailoInference::create: returns the engine, or throws, and then the
\* unique_ptr `engine` destroys the object during unwinding
HailoInference_create(path, failAt, status) ==
    LET r == CreateChain([BlankSession EXCEPT !.st = "constructing"], path, 1, failAt) IN
    IF r.threw
    THEN [threw |-> TRUE, engine |-> Destruct(r.engine, "unalloc"), at |-> r.at,
          exc |-> RuntimeError(MsgStatus(CreateFailure(CreateSteps[r.at]), status))]
    ELSE [threw |-> FALSE, engine |-> [r.engine EXCEPT !.st = "ready"], at |-> 0,
          exc |-> RuntimeError(NoError)]

\* the address operator new returns: a slot that holds no object
FreeSlot ==
    CHOOSE s \in Sessions :
        heap[s].st = "unalloc" /\ \A u \in Sessions : heap[u].st = "unalloc" => s <= u

\* hailo_create: try { return create(hef_path).release(); }
\*               catch (const std::exception& e) { set_error(e.what()); return nullptr; }
hailo_create(t) ==
    /\ CanStart(t)
    /\ \E s \in Sessions : heap[s].st = "unalloc"
    /\ \E path \in HefPaths, failAt \in 0..Len(CreateSteps), status \in FailureStatuses :
         LET r == HailoInference_create(path, failAt, status)
             acquired == IF r.threw THEN SubSeq(CreateSteps, 1, r.at - 1) ELSE CreateSteps
         IN  /\ heap' = [heap EXCEPT ![FreeSlot] = r.engine]
             /\ IF r.threw
                THEN Throw(t, [Atomic("create", NullHandle, NullHandle) EXCEPT
                                  !.eng = FreeSlot, !.steps = acquired], r.exc)
                ELSE /\ ReturnOk(t, [Atomic("create", NullHandle, FreeSlot) EXCEPT
                                        !.eng = FreeSlot, !.steps = acquired])
                     /\ UNCHANGED crashed
    /\ Count
    /\ UNCHANGED outbuf

\* ---------------- calls that run in one step ----------------
\* hailo_destroy: if (h) delete engine
hailo_destroy(t) ==
    /\ CanStart(t)
    /\ \E h \in KnownHandles :
         IF h = NullHandle
         THEN /\ ReturnOk(t, Atomic("destroy", h, 0))
              /\ UNCHANGED <<heap, crashed>>
         ELSE IF heap[h].st = "ready"
         THEN /\ heap' = [heap EXCEPT ![h] = Destruct(@, "freed")]
              /\ ReturnOk(t, Atomic("destroy", h, 0))
              /\ UNCHANGED crashed
         ELSE \* delete of an object already deleted: undefined behaviour
              /\ \/ ReturnOk(t, [Atomic("destroy", h, 0) EXCEPT !.ub = TRUE, !.dead = TRUE]) /\ UNCHANGED crashed
                 \/ Crash
              /\ UNCHANGED heap
    /\ Count
    /\ UNCHANGED outbuf

\* hailo_get_last_error: return g_last_error.c_str()
hailo_get_last_error(t) ==
    /\ CanStart(t)
    /\ ReturnOk(t, [Atomic("get_last_error", NullHandle, 0) EXCEPT !.str = g_last_error[t]])
    /\ Count
    /\ UNCHANGED <<heap, outbuf, crashed>>

\* HailoInference::getInputInfo
getInputInfoBlank(session) == ZeroInfo
getInputInfo(session) == session.m_input_info

\* hailo_get_input_info
hailo_get_input_info(t) ==
    /\ CanStart(t)
    /\ \E h \in KnownHandles :
         IF h = NullHandle
         THEN /\ ReturnError(t, Atomic("get_input_info", h, 0), MsgInvalidHandle)
              /\ UNCHANGED crashed
         ELSE IF heap[h].st = "ready"
         THEN /\ ReturnOk(t, [Atomic("get_input_info", h, 0) EXCEPT !.info = getInputInfo(heap[h])])
              /\ UNCHANGED crashed
         ELSE \* engine->getInputInfo() on a deleted object: undefined behaviour
              \/ \E garbage \in {ZeroInfo} \cup {HefInput(p) : p \in HefPaths} :
                   /\ ReturnOk(t, [Atomic("get_input_info", h, 0) EXCEPT !.info = garbage, !.ub = TRUE, !.dead = TRUE])
                   /\ UNCHANGED crashed
              \/ Crash
    /\ Count
    /\ UNCHANGED <<heap, outbuf>>

\* ---------------- hailo_detect / hailo_detect_people ----------------
\* the copy loop of hailo_detect: for (det : cpp_detections)
\*   { if (count >= max_detections) break; detections[count] = det; count++; }
RECURSIVE CopyLoopOffByOne(_, _, _, _)
CopyLoopOffByOne(cpp_detections, max_detections, count, detections) ==
    IF count >= Len(cpp_detections) THEN [count |-> count, detections |-> detections]
    ELSE IF count > max_detections THEN [count |-> count, detections |-> detections]
    ELSE CopyLoopOffByOne(cpp_detections, max_detections, count + 1,
                          [detections EXCEPT ![count + 1] = Written(cpp_detections[count + 1])])
RECURSIVE CopyLoopNoBreak(_, _, _, _)
CopyLoopNoBreak(cpp_detections, max_detections, count, detections) ==
    IF count >= Len(cpp_detections) THEN [count |-> count, detections |-> detections]
    ELSE CopyLoopNoBreak(cpp_detections, max_detections, count + 1,
                         [detections EXCEPT ![count + 1] = Written(cpp_detections[count + 1])])
RECURSIVE CopyLoop(_, _, _, _)
CopyLoop(cpp_detections, max_detections, count, detections) ==
    IF count >= Len(cpp_detections) THEN [count |-> count, detections |-> detections]
    ELSE IF count >= max_detections THEN [count |-> count, detections |-> detections]
    ELSE CopyLoop(cpp_detections, max_detections, count + 1,
                  [detections EXCEPT ![count + 1] = Written(cpp_detections[count + 1])])

\* the counting loop of HailoInference::detectPeople
PeopleCountAll(detections) == Len(detections)
PeopleCount(detections) ==
    Cardinality({i \in 1..Len(detections) :
                    detections[i].class_id = 0
                    /\ detections[i].confidence >= m_confidence_threshold})

\* a detect call that finds its session deleted: undefined behaviour
DetectUB(t) ==
    /\ \/ ReturnOk(t, [Result(t, 0) EXCEPT !.ub = TRUE]) /\ UNCHANGED crashed
       \/ ReturnError(t, [Result(t, 0 - 1) EXCEPT !.ub = TRUE], MsgText("Failed to set input buffer"))
          /\ UNCHANGED crashed
       \/ Crash
    /\ outbuf' = [outbuf EXCEPT ![t] = NoBuffer]
    /\ UNCHANGED <<heap, ncall>>

\* an exception thrown by HailoInference::detect: the local output_buffer is
\* destroyed, the boundary catches, records the message and returns -1
DetectThrowResets(t, msg) ==
    /\ Throw(t, Result(t, 0 - 1), RuntimeError(msg))
    /\ outbuf' = [outbuf EXCEPT ![t] = NoBuffer]
    /\ heap' = [heap EXCEPT ![call[t].h] = Destruct(@, "ready")]
    /\ UNCHANGED ncall
DetectThrow(t, msg) ==
    /\ Throw(t, Result(t, 0 - 1), RuntimeError(msg))
    /\ outbuf' = [outbuf EXCEPT ![t] = NoBuffer]
    /\ UNCHANGED <<heap, ncall>>

\* if (input_size != m_input_info.frame_size) throw
SizeGateOff(size, frame_size) == FALSE
SizeGate(size, frame_size) == size # frame_size

\* the threads that are inside HailoInference::detect on session h
InDetectOn(h) == {u \in Threads : pc[u] # "idle" /\ call[u].h = h}

\* entry of hailo_detect / hailo_detect_people: the null check of the
\* boundary, then the size check at the head of HailoInference::detect
DetectEntry(t, op) ==
    /\ CanStart(t)
    /\ \E h \in KnownHandles, size \in InputSizes :
         LET c == [NoCall EXCEPT !.op = op, !.id = ncall + 1, !.h = h, !.size = size]
             r == [Atomic(op, h, 0 - 1) EXCEPT !.size = size]
         IN
         IF h = NullHandle
         THEN ReturnError(t, r, MsgInvalidHandle) /\ UNCHANGED crashed
         ELSE IF heap[h].st # "ready"
         THEN \* engine->detect() on a deleted object: undefined behaviour
              \/ ReturnOk(t, [r EXCEPT !.val = 0, !.ub = TRUE, !.dead = TRUE]) /\ UNCHANGED crashed
              \/ ReturnError(t, [r EXCEPT !.ub = TRUE, !.dead = TRUE],
                             MsgSizeMismatch(0, size)) /\ UNCHANGED crashed
              \/ Crash
         ELSE IF SizeGate(size, heap[h].m_input_info.frame_size)
         THEN Throw(t, [r EXCEPT !.steps = <<op, "d_size">>],
                    RuntimeError(MsgSizeMismatch(heap[h].m_input_info.frame_size, size)))
         ELSE /\ pc' = [pc EXCEPT ![t] = "d_bind_in"]
              /\ call' = [u \in Threads |->
                            IF u = t
                            THEN [c EXCEPT !.steps = <<op, "d_size">>,
                                           !.shared = InDetectOn(h) # {}]
                            ELSE IF u \in InDetectOn(h)
                            THEN [call[u] EXCEPT !.shared = TRUE]
                            ELSE call[u]]
              /\ ret' = [ret EXCEPT ![t] = NoRet]
              /\ UNCHANGED <<g_last_error, last_fail, crashed>>
    /\ Count
    /\ UNCHANGED <<heap, outbuf>>

hailo_detect(t) == DetectEntry(t, "detect")

hailo_detect_people(t) == DetectEntry(t, "detect_people")

\* m_bindings.input()->set_buffer(MemoryView(input_data, input_size))
BindInputSkipsOutput(t) ==
    /\ Running(t, "d_bind_in")
    /\ IF heap[call[t].h].st # "ready" THEN DetectUB(t)
       ELSE \E status \in Statuses :
              IF status # HAILO_SUCCESS
              THEN DetectThrow(t, MsgText("Failed to set input buffer"))
              ELSE /\ heap' = [heap EXCEPT ![call[t].h].bind_in = BufOf(t)]
                   /\ Goto(t, "d_run")
                   /\ UNCHANGED outbuf
BindInput(t) ==
    /\ Running(t, "d_bind_in")
    /\ IF heap[call[t].h].st # "ready" THEN DetectUB(t)
       ELSE \E status \in Statuses :
              IF status # HAILO_SUCCESS
              THEN DetectThrow(t, MsgText("Failed to set input buffer"))
              ELSE /\ heap' = [heap EXCEPT ![call[t].h].bind_in = BufOf(t)]
                   /\ Goto(t, "d_bind_out")
                   /\ UNCHANGED outbuf

\* std::vector<uint8_t> output_buffer(m_output_size);
\* m_bindings.output()->set_buffer(MemoryView(output_buffer.data(), m_output_size))
BindOutputNotStored(t) ==
    /\ Running(t, "d_bind_out")
    /\ IF heap[call[t].h].st # "ready" THEN DetectUB(t)
       ELSE \E status \in Statuses :
              IF status # HAILO_SUCCESS
              THEN DetectThrow(t, MsgText("Failed to set output buffer"))
              ELSE /\ outbuf' = [outbuf EXCEPT ![t] = ZeroBuffer(heap[call[t].h].m_output_size)]
                   /\ Goto(t, "d_run")
                   /\ UNCHANGED heap
BindOutput(t) ==
    /\ Running(t, "d_bind_out")
    /\ IF heap[call[t].h].st # "ready" THEN DetectUB(t)
       ELSE \E status \in Statuses :
              IF status # HAILO_SUCCESS
              THEN DetectThrow(t, MsgText("Failed to set output buffer"))
              ELSE /\ heap' = [heap EXCEPT ![call[t].h].bind_out = BufOf(t)]
                   /\ outbuf' = [outbuf EXCEPT ![t] = ZeroBuffer(heap[call[t].h].m_output_size)]
                   /\ Goto(t, "d_run")

\* m_configured_model->run(m_bindings, 10000 ms): on success the hardware has
\* filled the buffer that m_bindings holds as output at that moment
RunStep(t, outputs) ==
    /\ Running(t, "d_run")
    /\ IF heap[call[t].h].st # "ready" THEN DetectUB(t)
       ELSE \E status \in Statuses :
              IF status # HAILO_SUCCESS
              THEN DetectThrow(t, MsgStatus("Inference failed: ", status))
              ELSE LET bound == heap[call[t].h].bind_out IN
                   /\ call' = [call EXCEPT ![t].steps = Append(@, pc[t]),
                                           ![t].ran = [in |-> heap[call[t].h].bind_in, out |-> bound]]
                   /\ UNCHANGED <<heap, ret, g_last_error, last_fail, ncall>>
                   /\ IF BufLive(bound)
                      THEN /\ \E raw \in outputs :
                                outbuf' = [outbuf EXCEPT ![bound[1]] = raw]
                           /\ pc' = [pc EXCEPT ![t] = "d_parse"]
                           /\ UNCHANGED crashed
                      ELSE \* the hardware writes through a dangling MemoryView
                           /\ UNCHANGED outbuf
                           /\ \/ pc' = [pc EXCEPT ![t] = "d_parse"] /\ UNCHANGED crashed
                              \/ crashed' = "ub" /\ UNCHANGED pc

\* in the runs of the whole boundary: the sample outputs of the two models
Run(t) == RunStep(t, HwOutputs(heap[call[t].h].m_output_size))

\* in the runs of one caller: every raw buffer of the session's output size
AnyOutputs(size) == {raw \in RawBuffers : raw.size = size}
RunAny(t) == RunStep(t, AnyOutputs(heap[call[t].h].m_output_size))

\* return parseDetections(output_buffer), then the loop of the boundary
\* function: copy out up to max_detections, or count the people.
\* max_detections is an argument of the call; nothing reads it before the
\* copy loop, so it is drawn here, from caps.
DecodeStep(t, caps) ==
    /\ Running(t, "d_parse")
    /\ \E cpp_detections \in parseDetections(outbuf[t]) :
         IF call[t].op = "detect"
         THEN \E max_detections \in caps :
                LET copied == CopyLoop(cpp_detections, max_detections, 0, OutArray) IN
                ReturnOk(t, [Result(t, copied.count) EXCEPT
                                !.arr = copied.detections, !.dets = cpp_detections,
                                !.raw = outbuf[t], !.cap = max_detections])
         ELSE ReturnOk(t, [Result(t, PeopleCount(cpp_detections)) EXCEPT
                              !.dets = cpp_detections, !.raw = outbuf[t]])
    /\ outbuf' = [outbuf EXCEPT ![t] = NoBuffer]
    /\ UNCHANGED <<heap, ncall, crashed>>

\* in the runs of the whole boundary: a capacity that truncates and one that
\* does not
Decode(t) == DecodeStep(t, {1, MaxRecords})

\* in the runs of the decoder alone: every capacity
DecodeAll(t) == DecodeStep(t, Capacities)

Next ==
    \E t \in Threads :
        \/ hailo_create(t)
        \/ hailo_destroy(t)
        \/ hailo_get_last_error(t)
        \/ hailo_get_input_info(t)
        \/ hailo_detect_people(t)
        \/ hailo_detect(t)
        \/ BindInput(t)
        \/ BindOutput(t)
        \/ Run(t)
        \/ Decode(t)

Spec == Init /\ [][Next]_vars

\* ------------------------------------------------------------------------
\* The end of a detect call on its own: thread "A" is in hailo_detect or
\* hailo_detect_people on a ready session, the hardware run has returned
\* and left an arbitrary raw buffer in output_buffer.
\* ------------------------------------------------------------------------
DecodeInit ==
    /\ \E raw \in RawBuffers, op \in {"detect", "detect_people"} :
         /\ heap = [s \in Sessions |->
                      IF s = 1
                      THEN [BlankSession EXCEPT
                               !.st = "ready", !.m_vdevice = TRUE, !.m_infer_model = TRUE,
                               !.m_configured_model = TRUE, !.m_bindings = TRUE,
                               !.m_input_info = HefInput("a.hef"), !.m_output_size = raw.size,
                               !.bind_in = <<"A", 2>>, !.bind_out = <<"A", 2>>]
                      ELSE BlankSession]
         /\ call = [t \in Threads |->
                      IF t = "A"
                      THEN [NoCall EXCEPT
                               !.op = op, !.id = 2, !.h = 1,
                               !.size = HefInput("a.hef").frame_size,
                               !.steps = <<op, "d_size", "d_bind_in", "d_bind_out", "d_run">>,
                               !.ran = [in |-> <<"A", 2>>, out |-> <<"A", 2>>]]
                      ELSE NoCall]
         /\ outbuf = [t \in Threads |-> IF t = "A" THEN raw ELSE NoBuffer]
    /\ pc = [t \in Threads |-> IF t = "A" THEN "d_parse" ELSE "idle"]
    /\ ret = [t \in Threads |-> NoRet]
    /\ g_last_error = [t \in Threads |-> NoError]
    /\ last_fail = [t \in Threads |-> NoError]
    /\ ncall = 2
    /\ crashed = "no"

DecodeNext == \E t \in Threads : DecodeAll(t)

SpecDecode == DecodeInit /\ [][DecodeNext]_vars

\* ------------------------------------------------------------------------
\* One caller, thread "A", making detect and detect_people calls on a
\* session that hailo_create has returned, as the last call of a run; the
\* model file may have any output size, and the hardware may leave any raw
\* buffer of that size.
\* ------------------------------------------------------------------------
OutputSizes == {raw.size : raw \in RawBuffers}

CallInit ==
    /\ \E size \in OutputSizes :
         heap = [s \in Sessions |->
                   IF s = 1
                   THEN [BlankSession EXCEPT
                            !.st = "ready", !.m_vdevice = TRUE, !.m_infer_model = TRUE,
                            !.m_configured_model = TRUE, !.m_bindings = TRUE,
                            !.m_input_info = HefInput("a.hef"), !.m_output_size = size]
                   ELSE BlankSession]
    /\ pc = [t \in Threads |-> "idle"]
    /\ call = [t \in Threads |-> NoCall]
    /\ ret = [t \in Threads |-> NoRet]
    /\ g_last_error = [t \in Threads |-> NoError]
    /\ last_fail = [t \in Threads |-> NoError]
    /\ outbuf = [t \in Threads |-> NoBuffer]
    /\ ncall = MaxCalls - 1
    /\ crashed = "no"

CallNext ==
    \/ hailo_detect_people("A")
    \/ hailo_detect("A")
    \/ BindInput("A")
    \/ BindOutput("A")
    \/ RunAny("A")
    \/ DecodeAll("A")

SpecCall == CallInit /\ [][CallNext]_vars

\* ------------------------------------------------------------------------
\* Properties
\* ------------------------------------------------------------------------
HoldsNothing(session) ==
    /\ ~session.m_vdevice
    /\ ~session.m_infer_model
    /\ ~session.m_configured_model
    /\ ~session.m_bindings

FullyAcquired(session) ==
    /\ session.m_vdevice
    /\ session.m_infer_model
    /\ session.m_configured_model
    /\ session.m_bindings
    /\ \E p \in HefPaths :
         session.m_input_info = HefInput(p) /\ session.m_output_size = HefOutputSize(p)

DetectOps == {"detect", "detect_people"}

\* thread t's last finished call, if it took this step to finish
Finishes(t) == ret'[t].id # 0 /\ ret'[t].id # ret[t].id

\* C1: session creation is all-or-nothing.  A create whose chain stopped at
\* any of the six steps returned the null handle and recorded the error; an
\* object that is not a ready session holds no resource (what the earlier
\* steps acquired has been released); every ready session has the whole
\* chain; no object is left under construction.
C1_CreateAllOrNothing ==
    /\ \A t \in Threads :
         ret[t].op = "create" =>
            /\ Len(ret[t].steps) < Len(CreateSteps) =>
                  /\ ret[t].val = NullHandle
                  /\ ret[t].err # NoError
            /\ ret[t].val # NullHandle =>
                  /\ ret[t].steps = CreateSteps
                  /\ heap[ret[t].val].st \in {"ready", "freed"}
    /\ \A s \in Sessions :
         /\ heap[s].st # "constructing"
         /\ heap[s].st = "ready" => FullyAcquired(heap[s])
         /\ heap[s].st # "ready" => HoldsNothing(heap[s])

\* a create that failed at its last step, after every resource was acquired
C1_Witness ==
    \E t \in Threads :
        /\ ret[t].op = "create"
        /\ ret[t].val = NullHandle
        /\ Len(ret[t].steps) = Len(CreateSteps) - 1
        /\ heap[ret[t].eng].st = "unalloc"

\* C2 (as claimed): a boundary operation given a handle that hailo_destroy
\* has already been called on reports an error (sentinel and message) and
\* does not touch the destroyed session.
C2_DestroyedHandleDetected ==
    \A t \in Threads :
        (ret[t].op \in DetectOps \cup {"get_input_info"} /\ ret[t].dead) =>
            /\ ~ret[t].ub
            /\ ret[t].err # NoError
            /\ ret[t].op \in DetectOps => ret[t].val = 0 - 1
            /\ ret[t].op = "get_input_info" => ret[t].info = ZeroInfo

\* C3: with the null handle no boundary operation touches a session:
\* get_input_info returns the all-zero struct and records an error,
\* detect_people and detect return -1 and record an error (and write nothing
\* to the output array), destroy changes nothing at all.
C3_NullHandleStep(t) ==
    /\ Finishes(t)
    /\ ret'[t].h = NullHandle
    /\ ret'[t].op \in DetectOps \cup {"get_input_info", "destroy"}

C3_NullHandle ==
    [][\A t \in Threads : C3_NullHandleStep(t) =>
          /\ heap' = heap
          /\ outbuf' = outbuf
          /\ crashed' = crashed
          /\ ~ret'[t].ub
          /\ ret'[t].op = "get_input_info" =>
                /\ ret'[t].info = ZeroInfo
                /\ ret'[t].err # NoError
                /\ g_last_error'[t] = ret'[t].err
          /\ ret'[t].op \in DetectOps =>
                /\ ret'[t].val = 0 - 1
                /\ ret'[t].err # NoError
                /\ g_last_error'[t] = ret'[t].err
                /\ \A i \in 1..Len(ret'[t].arr) : ret'[t].arr[i] = Unwritten
          /\ ret'[t].op = "destroy" =>
                /\ g_last_error' = g_last_error
                /\ pc' = pc
                /\ call' = call
                /\ \A u \in Threads \ {t} : ret'[u] = ret[u]]_vars

\* get_input_info, detect and destroy have each been called with null
C3_Witness ==
    /\ ret["A"].op = "get_input_info"
    /\ ret["A"].h = NullHandle
    /\ ret["A"].err = MsgInvalidHandle
    /\ ret["B"].op = "destroy"
    /\ ret["B"].h = NullHandle
    /\ g_last_error["B"] = MsgInvalidHandle

\* the message the code builds for a detect call that ended at `step`
DetectFailure(step, session, size, msg) ==
    CASE step = "d_size" -> msg = MsgSizeMismatch(session.m_input_info.frame_size, size)
      [] step = "d_bind_in" -> msg = MsgText("Failed to set input buffer")
      [] step = "d_bind_out" -> msg = MsgText("Failed to set output buffer")
      [] step = "d_run" -> \E status \in FailureStatuses : msg = MsgStatus("Inference failed: ", status)
      [] OTHER -> FALSE

\* C4: every internal failure of a boundary call (a step of the create chain
\* failing, input size mismatch, a bind failing, the run failing or timing
\* out) ends the call with the sentinel (null handle, -1) and leaves a
\* non-empty message describing that failure in the calling thread's error
\* slot; no exception leaves a boundary call.
C4_FailuresReported ==
    /\ crashed # "uncaught"
    /\ \A t \in Threads :
         /\ (ret[t].op = "create" /\ Len(ret[t].steps) < Len(CreateSteps)) =>
               /\ ret[t].val = NullHandle
               /\ Len(g_last_error[t]) > 0
               /\ g_last_error[t] = ret[t].err
               /\ \E status \in FailureStatuses :
                    ret[t].err = MsgStatus(CreateFailure(CreateSteps[Len(ret[t].steps) + 1]), status)
         /\ (ret[t].op \in DetectOps /\ ret[t].h # NullHandle /\ ~ret[t].ub
               /\ ret[t].steps[Len(ret[t].steps)] # "d_parse") =>
               /\ ret[t].val = 0 - 1
               /\ Len(g_last_error[t]) > 0
               /\ g_last_error[t] = ret[t].err
               /\ heap[ret[t].h].st = "ready" =>
                     DetectFailure(ret[t].steps[Len(ret[t].steps)], heap[ret[t].h],
                                   ret[t].size, ret[t].err)
         /\ (ret[t].op \in DetectOps \cup {"get_input_info"} /\ ret[t].h = NullHandle) =>
               /\ g_last_error[t] = ret[t].err
               /\ Len(g_last_error[t]) > 0

\* thread A's create failed at configure, thread B's detect failed in the run
C4_Witness ==
    /\ ret["A"].op = "create"
    /\ ret["A"].err = MsgStatus("Failed to configure model: ", 4)
    /\ ret["B"].op = "detect"
    /\ ret["B"].err = MsgStatus("Inference failed: ", 4)
    /\ g_last_error["B"] = MsgStatus("Inference failed: ", 4)

\* C5: size gate.  A detect on a ready session with input_size different
\* from the session's frame_size ends in the same step with the size error,
\* -1 and no detections; the session (its binding context included) and all
\* output buffers are untouched and the call never reaches the binds or the
\* run.  A call that goes on to the binds has input_size = frame_size.
C5_SizeGate ==
    [][\A t \in Threads :
          /\ (Finishes(t) /\ ret'[t].op \in DetectOps /\ ret'[t].h # NullHandle
                /\ pc[t] = "idle" /\ heap[ret'[t].h].st = "ready"
                /\ ret'[t].size # heap[ret'[t].h].m_input_info.frame_size) =>
                /\ ret'[t].val = 0 - 1
                /\ ret'[t].err = MsgSizeMismatch(heap[ret'[t].h].m_input_info.frame_size,
                                                 ret'[t].size)
                /\ g_last_error'[t] = ret'[t].err
                /\ ret'[t].dets = <<>>
                /\ \A i \in 1..Len(ret'[t].arr) : ret'[t].arr[i] = Unwritten
                /\ ret'[t].steps = <<ret'[t].op, "d_size">>
                /\ ret'[t].ran = NoRan
                /\ heap' = heap
                /\ outbuf' = outbuf
          /\ (pc[t] = "idle" /\ pc'[t] # "idle" /\ heap[call'[t].h].st = "ready") =>
                call'[t].size = heap[call'[t].h].m_input_info.frame_size]_vars

\* a detect with 3 bytes on a session whose frame size is 12 has failed
C5_Witness ==
    \E t \in Threads :
        /\ ret[t].op = "detect"
        /\ ret[t].h # NullHandle
        /\ ret[t].size = 3
        /\ heap[ret[t].h].st = "ready"
        /\ heap[ret[t].h].m_input_info.frame_size = 12
        /\ ret[t].err = MsgSizeMismatch(12, 3)

\* a detect call that went through the decode and returned
Decoded_(t) == ret[t].op \in DetectOps /\ ret[t].steps # <<>> /\ ret[t].steps[Len(ret[t].steps)] = "d_parse"

WrittenCount(arr) == Cardinality({i \in 1..Len(arr) : arr[i].written})

\* C6: capacity truncation.  When a successful boundary detect has m NMS
\* survivors and capacity k (an array capacity, k >= 0; negative values are
\* the subject of C7) with m > k, it returns exactly k, slots 0..k-1 hold the
\* first k survivors, which are in confidence-descending order, and no slot
\* from k on is written.
C6_CapacityTruncation ==
    \A t \in Threads :
        (Decoded_(t) /\ ret[t].op = "detect" /\ ret[t].cap >= 0
            /\ Len(ret[t].dets) > ret[t].cap) =>
            /\ ret[t].val = ret[t].cap
            /\ \A i \in 1..ret[t].cap : ret[t].arr[i] = Written(ret[t].dets[i])
            /\ \A i \in (ret[t].cap + 1)..Len(ret[t].arr) : ret[t].arr[i] = Unwritten
            /\ \A i \in 1..(ret[t].cap - 1) :
                  ret[t].arr[i].det.confidence >= ret[t].arr[i + 1].det.confidence

\* three survivors of different confidence, capacity two
C6_Witness ==
    /\ Decoded_("A")
    /\ ret["A"].op = "detect"
    /\ ret["A"].cap = 2
    /\ Len(ret["A"].dets) = 3
    /\ ret["A"].val = 2
    /\ ret["A"].dets[2].confidence > ret["A"].dets[3].confidence

\* C7 (as claimed): for every integer capacity, zero and negative included,
\* a non-error return value is the number of entries written and is at
\* most the capacity.
C7_ReturnWithinCapacity ==
    \A t \in Threads :
        (Decoded_(t) /\ ret[t].op = "detect" /\ ret[t].val >= 0) =>
            /\ ret[t].val = WrittenCount(ret[t].arr)
            /\ ret[t].val <= ret[t].cap

\* C7 (amended): a non-error return value is the number of entries written,
\* the written entries are the first ones of the array, and the value is at
\* most the capacity when the capacity is >= 0; with a negative capacity the
\* call writes nothing and returns 0.
C7_ReturnWithinCapacityAmended ==
    \A t \in Threads :
        (Decoded_(t) /\ ret[t].op = "detect" /\ ret[t].val >= 0) =>
            /\ ret[t].val = WrittenCount(ret[t].arr)
            /\ \A i \in 1..Len(ret[t].arr) : ret[t].arr[i].written <=> i <= ret[t].val
            /\ ret[t].cap >= 0 => ret[t].val <= ret[t].cap
            /\ ret[t].cap < 0 => ret[t].val = 0

\* a negative capacity with survivors to report
C7_Witness ==
    /\ Decoded_("A")
    /\ ret["A"].op = "detect"
    /\ ret["A"].cap < 0
    /\ Len(ret["A"].dets) > 0
    /\ ret["A"].val = 0

\* intersection-over-union of two axis-aligned boxes as the specification
\* defines it, compared with the NMS threshold 0.45: the overlap is
\* max(0, min(x_max) - max(x_min)) * max(0, min(y_max) - max(y_min)), the
\* union is area + area - overlap, and the ratio is 0 when the union is <= 0
BoxArea(d) == (d.x_max - d.x_min) * (d.y_max - d.y_min)
Overlap(a, b) ==
    LET w == (IF a.x_max < b.x_max THEN a.x_max ELSE b.x_max)
             - (IF a.x_min > b.x_min THEN a.x_min ELSE b.x_min)
        h == (IF a.y_max < b.y_max THEN a.y_max ELSE b.y_max)
             - (IF a.y_min > b.y_min THEN a.y_min ELSE b.y_min)
    IN  (IF w > 0 THEN w ELSE 0) * (IF h > 0 THEN h ELSE 0)
IoUExceedsThreshold(a, b) ==
    LET u == BoxArea(a) + BoxArea(b) - Overlap(a, b) IN
    /\ u > 0
    /\ 100 * Overlap(a, b) > 45 * u

\* C8: NMS class-scoping invariant.  For every raw output buffer, any two
\* distinct detections of the returned list with the same class_id have
\* IoU <= 0.45.
C8_NmsClassScoping ==
    \A t \in Threads :
        Decoded_(t) =>
            \A i, j \in 1..Len(ret[t].dets) :
                (i # j /\ ret[t].dets[i].class_id = ret[t].dets[j].class_id) =>
                    ~IoUExceedsThreshold(ret[t].dets[i], ret[t].dets[j])

\* three records above the threshold, one suppressed, and the two survivors
\* are overlapping boxes of the same class
C8_Witness ==
    /\ Decoded_("A")
    /\ Len(Filtered(ret["A"].raw)) = 3
    /\ Len(ret["A"].dets) = 2
    /\ ret["A"].dets[1].class_id = ret["A"].dets[2].class_id
    /\ Overlap(ret["A"].dets[1], ret["A"].dets[2]) > 0

\* the records of a raw buffer as the specification lays them out: groups
\* of 6 complete floats, class value truncated to an integer
RecordsOf(raw) ==
    [i \in 1..((raw.size \div 4) \div 6) |->
        [x_min |-> raw.data[6 * i - 5], y_min |-> raw.data[6 * i - 4],
         x_max |-> raw.data[6 * i - 3], y_max |-> raw.data[6 * i - 2],
         confidence |-> raw.data[6 * i - 1],
         class_id |-> IF raw.data[6 * i] >= 0 THEN raw.data[6 * i] \div 10
                      ELSE 0 - ((0 - raw.data[6 * i]) \div 10)]]

\* C9: confidence filter.  For every raw output buffer, every detection of
\* the returned list has confidence >= 0.5 (5 tenths) and is one of the
\* decoded records; and a decoded record with confidence >= 0.5 is missing
\* from the list only if a listed detection (so one above the threshold) of
\* its class and of no lower confidence overlaps it with IoU > 0.45:
\* nothing below the threshold suppresses anything.
C9_ConfidenceFilter ==
    \A t \in Threads :
        Decoded_(t) =>
            LET records == RecordsOf(ret[t].raw)
                dets == ret[t].dets
            IN  /\ \A i \in 1..Len(dets) :
                      /\ dets[i].confidence >= 5
                      /\ \E k \in 1..Len(records) : records[k] = dets[i]
                /\ \A k \in 1..Len(records) :
                      records[k].confidence >= 5 =>
                         \/ \E i \in 1..Len(dets) : dets[i] = records[k]
                         \/ \E i \in 1..Len(dets) :
                               /\ dets[i].class_id = records[k].class_id
                               /\ dets[i].confidence >= records[k].confidence
                               /\ IoUExceedsThreshold(dets[i], records[k])

\* a buffer with a record below the threshold, one exactly at it that is
\* returned, and one above it
C9_Witness ==
    /\ Decoded_("A")
    /\ \E k \in 1..Len(RecordsOf(ret["A"].raw)) : RecordsOf(ret["A"].raw)[k].confidence < 5
    /\ \E i \in 1..Len(ret["A"].dets) : ret["A"].dets[i].confidence = 5
    /\ \E i \in 1..Len(ret["A"].dets) : ret["A"].dets[i].confidence > 5

\* C10: error-message thread confinement.  In every interleaving of the
\* calls of two threads, a thread's error slot holds the message of the most
\* recent failing call of that thread itself (empty if it had none), and
\* that is what hailo_get_last_error returned to it; the failures of the
\* other thread never show.
C10_ThreadConfinement ==
    \A t \in Threads :
        /\ g_last_error[t] = last_fail[t]
        /\ ret[t].op = "get_last_error" => ret[t].str = last_fail[t]
        /\ ret[t].err # NoError => last_fail[t] = ret[t].err

\* B failed, then A failed with another message, then B read its own
C10_Witness ==
    /\ ret["B"].op = "get_last_error"
    /\ ret["B"].str # NoError
    /\ ret["A"].err # NoError
    /\ ret["A"].id < ret["B"].id
    /\ ret["A"].err # ret["B"].str

\* the buffers of the call whose result is r, made by thread t
OwnBuffers(t, r) == [in |-> <<t, r.id>>, out |-> <<t, r.id>>]

\* what a detect on a freshly created session can return: the decode of a
\* buffer the hardware leaves for the model the session was created from
FreshResult(r) ==
    \E p \in HefPaths :
        /\ r.size = HefInput(p).frame_size
        /\ r.raw \in HwOutputs(HefOutputSize(p))
        /\ r.dets \in parseDetections(r.raw)
        /\ r.err = NoError

\* C11: a failed detect (size mismatch, a bind failing, the run failing or
\* timing out) leaves the session as it was, in Ready; and whatever failed
\* detects came before, a detect with a correctly sized input whose run
\* succeeds on its own buffers returns what a freshly created session
\* returns for that hardware output.
C11_FailedDetectKeepsReady ==
    [][\A t \in Threads :
          /\ (Finishes(t) /\ ret'[t].op \in DetectOps /\ ret'[t].h # NullHandle
                /\ ~ret'[t].ub /\ ret'[t].err # NoError) =>
                /\ heap' = heap
                /\ heap'[ret'[t].h].st = "ready"
                /\ FullyAcquired(heap'[ret'[t].h])
          /\ (Finishes(t) /\ ret'[t].op \in DetectOps /\ ~ret'[t].ub
                /\ ret'[t].steps[Len(ret'[t].steps)] = "d_parse"
                /\ ret'[t].ran = OwnBuffers(t, ret'[t])) =>
                FreshResult(ret'[t])]_vars

\* thread A alone: create, a detect whose run failed, then a detect that
\* succeeded on the same session
C11_Witness ==
    /\ ret["B"] = NoRet
    /\ ret["A"].op = "detect"
    /\ ret["A"].id = 3
    /\ ret["A"].steps[Len(ret["A"].steps)] = "d_parse"
    /\ ~ret["A"].ub
    /\ g_last_error["A"] = MsgStatus("Inference failed: ", 4)
    /\ Len(ret["A"].dets) > 0

\* the binding context of a session refers to buffer b, and the call that
\* owns b has returned
RefersToFinished(b) == b # NoBuf /\ ~BufLive(b)

\* C12 (as claimed): once a detect has returned, successfully or with an
\* error, the session's binding context refers neither to that call's input
\* buffer nor to its output buffer: no ready session is bound to a buffer of
\* a call that has finished.
C12_NoRetainedBuffer ==
    \A s \in Sessions :
        heap[s].st = "ready" =>
            /\ ~RefersToFinished(heap[s].bind_in)
            /\ ~RefersToFinished(heap[s].bind_out)

\* the geometry of the model file a session was created from
GeometryOfModel(info) == \E p \in HefPaths : info = HefInput(p)

\* C13: idempotent geometry.  While a session is Ready its input geometry
\* never changes, whatever get_input_info, detect and detect_people calls
\* run on it and however they end; every get_input_info on a Ready session
\* returns exactly that geometry (the one of the model file); and the call
\* itself changes nothing: not the sessions, not a buffer, not an error slot.
C13_IdempotentGeometry ==
    [][/\ \A s \in Sessions :
            (heap[s].st = "ready" /\ heap'[s].st = "ready") =>
                getInputInfo(heap'[s]) = getInputInfo(heap[s])
       /\ \A s \in Sessions :
            (heap[s].st # "ready" /\ heap'[s].st = "ready") =>
                GeometryOfModel(getInputInfo(heap'[s]))
       /\ \A t \in Threads :
            (Finishes(t) /\ ret'[t].op = "get_input_info" /\ ret'[t].h # NullHandle
                /\ heap[ret'[t].h].st = "ready") =>
                /\ ret'[t].info = heap[ret'[t].h].m_input_info
                /\ GeometryOfModel(ret'[t].info)
                /\ ret'[t].err = NoError
                /\ heap' = heap
                /\ outbuf' = outbuf
                /\ g_last_error' = g_last_error
                /\ \A u \in Threads \ {t} : ret'[u] = ret[u] /\ call'[u] = call[u]]_vars

\* a detect ran and failed on a session, and a later get_input_info on the
\* same session returned the geometry of its model
C13_Witness ==
    /\ ret["A"].op = "get_input_info"
    /\ ret["B"].op \in DetectOps
    /\ ret["B"].h = ret["A"].h
    /\ ret["A"].h # NullHandle
    /\ ret["B"].id < ret["A"].id
    /\ ret["B"].err = MsgText("Failed to set output buffer")
    /\ ~ret["A"].ub
    /\ ret["A"].info = HefInput("a.hef")

\* the number of detections of class k in a list
ClassCount(dets, k) == Cardinality({i \in 1..Len(dets) : dets[i].class_id = k})

\* the step a finished detect call ended at
LastStep(r) == r.steps[Len(r.steps)]

\* C14: detect_people returns exactly the number of class-0 detections of
\* the list detect returns for the hardware output of the call, for every
\* raw output buffer; and it fails exactly when detect fails: for both
\* operations the call returns -1 precisely when it stopped before the
\* decode (size mismatch, a bind failing, the run failing), with the same
\* message, and a wrongly sized input always fails.
C14_PeopleCount ==
    \A t \in Threads :
        (ret[t].op \in DetectOps /\ ret[t].h # NullHandle /\ ~ret[t].ub) =>
            /\ ret[t].val = 0 - 1 <=> LastStep(ret[t]) # "d_parse"
            /\ ret[t].val = 0 - 1 <=> ret[t].err # NoError
            /\ ret[t].size # heap[ret[t].h].m_input_info.frame_size => ret[t].val = 0 - 1
            /\ ret[t].val = 0 - 1 =>
                  DetectFailure(LastStep(ret[t]), heap[ret[t].h], ret[t].size, ret[t].err)
            /\ ret[t].val # 0 - 1 =>
                  /\ ret[t].raw.size = heap[ret[t].h].m_output_size
                  /\ ret[t].dets \in parseDetections(ret[t].raw)
                  /\ ret[t].op = "detect_people" =>
                        ret[t].val = ClassCount(ret[t].dets, 0)

\* detect_people on a buffer whose decoded list has two people and one
\* detection of another class
C14_Witness ==
    /\ ret["A"].op = "detect_people"
    /\ LastStep(ret["A"]) = "d_parse"
    /\ Len(ret["A"].dets) = 3
    /\ ret["A"].val = 2
    /\ \E i \in 1..3 : ret["A"].dets[i].class_id = 1

\* how many times detection d occurs in a list
Occurrences(dets, d) == Cardinality({i \in 1..Len(dets) : dets[i] = d})

\* the records of a raw buffer that pass the confidence filter
Eligible(raw) == SelectSeq(RecordsOf(raw), LAMBDA d : d.confidence >= 5)

SameBox(a, b) ==
    /\ a.x_min = b.x_min
    /\ a.y_min = b.y_min
    /\ a.x_max = b.x_max
    /\ a.y_max = b.y_max

\* C15: NMS cross-class pass-through.  For every raw output buffer, a record
\* that passed the confidence filter is missing from the returned list only
\* if a returned detection of the same class_id overlaps it with
\* IoU > 0.45: a detection of another class never removes it.  In
\* particular, when the filtered records are two boxes with identical
\* coordinates and different class ids, both are returned.
C15_CrossClassPassThrough ==
    \A t \in Threads :
        Decoded_(t) =>
            LET eligible == Eligible(ret[t].raw)
                dets == ret[t].dets
            IN  /\ \A k \in 1..Len(eligible) :
                      Occurrences(dets, eligible[k]) < Occurrences(eligible, eligible[k]) =>
                          \E i \in 1..Len(dets) :
                              /\ dets[i].class_id = eligible[k].class_id
                              /\ IoUExceedsThreshold(dets[i], eligible[k])
                /\ (Len(eligible) = 2 /\ SameBox(eligible[1], eligible[2])
                      /\ eligible[1].class_id # eligible[2].class_id) =>
                          /\ Len(dets) = 2
                          /\ Occurrences(dets, eligible[1]) = 1
                          /\ Occurrences(dets, eligible[2]) = 1

\* the filtered records are the same box with class 0 and with class 1, and
\* both have been returned
C15_Witness ==
    /\ Decoded_("A")
    /\ Len(Eligible(ret["A"].raw)) = 2
    /\ SameBox(Eligible(ret["A"].raw)[1], Eligible(ret["A"].raw)[2])
    /\ BoxArea(Eligible(ret["A"].raw)[1]) > 0
    /\ Eligible(ret["A"].raw)[1].class_id # Eligible(ret["A"].raw)[2].class_id
    /\ Len(ret["A"].dets) = 2

\* the hardware run of the call recorded in r (made by thread t) executed
\* with an input or output buffer that is not the call's own
ForeignRun(t, r) == r.ran # NoRan /\ r.ran # OwnBuffers(t, r)

\* C16: concurrent detect calls on one session are not safe.  A hardware
\* run executes with a buffer bound by another call only in a call that
\* overlapped another detect on the same session: every call that the
\* caller serialized ran with the input and the output buffer it bound
\* itself.  (That the race is reachable without serialization is the
\* witness.)
C16_RaceOnlyWhenConcurrent ==
    \A t \in Threads :
        /\ ForeignRun(t, call[t]) => call[t].shared
        /\ ForeignRun(t, ret[t]) => ret[t].shared
        /\ (pc[t] = "d_parse" /\ ~call[t].shared) => call[t].ran = OwnBuffers(t, call[t])
        /\ (Decoded_(t) /\ ~ret[t].ub /\ ~ret[t].shared) => ret[t].ran = OwnBuffers(t, ret[t])

\* two threads in detect on one session without serialization: the run of
\* thread A's call executed with the input buffer thread B's call had bound
C16_Witness ==
    /\ ForeignRun("A", ret["A"])
    /\ ret["A"].ran.in[1] = "B"
    /\ ret["A"].ran.out[1] = "A"
    /\ ret["A"].shared

\* the lifecycle state of the object at address s: "unalloc" is
\* Uninitialized, "ready" is Ready, "freed" is Destroyed
Lifecycle(s) == heap[s].st

\* C17: session lifecycle.  The state of a handle changes only from
\* Uninitialized to Ready, in the step in which a create returns that
\* handle, and from Ready to Destroyed, in the step in which a destroy of
\* that handle returns; a create that fails leaves every lifecycle state as
\* it was (no Ready session appears); nothing leaves Destroyed; and no step
\* of get_input_info, detect or detect_people, succeeding or failing,
\* changes a lifecycle state.
C17_Lifecycle ==
    [][/\ \A s \in Sessions :
            /\ Lifecycle(s)' \in {"unalloc", "ready", "freed"}
            /\ Lifecycle(s)' # Lifecycle(s) =>
                  \/ /\ Lifecycle(s) = "unalloc"
                     /\ Lifecycle(s)' = "ready"
                     /\ \E t \in Threads :
                          Finishes(t) /\ ret'[t].op = "create" /\ ret'[t].val = s
                  \/ /\ Lifecycle(s) = "ready"
                     /\ Lifecycle(s)' = "freed"
                     /\ \E t \in Threads :
                          Finishes(t) /\ ret'[t].op = "destroy" /\ ret'[t].h = s
       /\ \A t \in Threads :
            /\ (Finishes(t) /\ ret'[t].op = "create" /\ ret'[t].val = NullHandle) =>
                  \A s \in Sessions : Lifecycle(s)' = Lifecycle(s)
            /\ (Finishes(t) /\ ret'[t].op = "create" /\ ret'[t].val # NullHandle) =>
                  /\ heap[ret'[t].val].st = "unalloc"
                  /\ heap'[ret'[t].val].st = "ready"
            /\ (Finishes(t) /\ ret'[t].op = "destroy" /\ ret'[t].h # NullHandle) =>
                  heap'[ret'[t].h].st = "freed"
            /\ ((Finishes(t) /\ ret'[t].op \in DetectOps \cup {"get_input_info"})
                  \/ pc'[t] # pc[t]) =>
                  \A s \in Sessions : Lifecycle(s)' = Lifecycle(s)]_vars

\* a session was created and destroyed, and another create failed
C17_Witness ==
    /\ ret["A"].op = "destroy"
    /\ ret["A"].h # NullHandle
    /\ Lifecycle(ret["A"].h) = "freed"
    /\ ret["B"].op = "create"
    /\ ret["B"].val = NullHandle
    /\ ret["B"].id > ret["A"].id
    /\ \A s \in Sessions : Lifecycle(s) # "ready"

\* the steps of one detect call, in the order the specification gives
DetectOrder == <<"d_size", "d_bind_in", "d_bind_out", "d_run", "d_parse">>

\* steps is the name of the operation followed by the first n steps of
\* DetectOrder, for some n >= 1
InDetectOrder(op, steps) ==
    /\ Len(steps) >= 2
    /\ Len(steps) <= Len(DetectOrder) + 1
    /\ steps[1] = op
    /\ \A i \in 2..Len(steps) : steps[i] = DetectOrder[i - 1]

\* C18: within one detect call the steps happen in the order size check,
\* bind input, bind output, hardware run, decode, each at most once (the
\* run is never repeated); the run has executed only in a call that did
\* both binds before it, a call was decoded only after its run succeeded,
\* and a call that failed stopped at the failing step: it has no later
\* step, ran nothing unless it failed after the run, and returned -1 and
\* no detections.
C18_StepOrder ==
    \A t \in Threads :
        /\ (pc[t] # "idle" /\ crashed = "no") =>
              /\ InDetectOrder(call[t].op, Append(call[t].steps, pc[t]))
              /\ call[t].ran # NoRan <=> pc[t] = "d_parse"
        /\ (ret[t].op \in DetectOps /\ ret[t].h # NullHandle /\ ~ret[t].dead) =>
              /\ InDetectOrder(ret[t].op, ret[t].steps)
              /\ ret[t].ran # NoRan => Len(ret[t].steps) = Len(DetectOrder) + 1
              /\ LastStep(ret[t]) = "d_parse" =>
                    /\ ret[t].ran # NoRan
                    /\ ret[t].err = NoError
                    /\ ret[t].val >= 0
              /\ LastStep(ret[t]) # "d_parse" =>
                    /\ ret[t].ran = NoRan
                    /\ ret[t].dets = <<>>
                    /\ \A i \in 1..Len(ret[t].arr) : ret[t].arr[i] = Unwritten
                    /\ ~ret[t].ub => (ret[t].val = 0 - 1 /\ ret[t].err # NoError)

\* one call stopped at the output bind without running, another went
\* through all five steps
C18_Witness ==
    /\ ret["A"].op = "detect"
    /\ ret["A"].steps = <<"detect", "d_size", "d_bind_in", "d_bind_out">>
    /\ ret["A"].err = MsgText("Failed to set output buffer")
    /\ ret["A"].ran = NoRan
    /\ ret["B"].op = "detect"
    /\ ret["B"].steps = <<"detect">> \o DetectOrder
    /\ ret["B"].ran # NoRan

NonIncreasing(dets) ==
    \A i \in 1..(Len(dets) - 1) : dets[i].confidence >= dets[i + 1].confidence

\* greedy emission as the specification describes it: walk the sorted list,
\* emit a record unless an already emitted one of its class overlaps it
\* with IoU > 0.45
RECURSIVE GreedyEmission(_, _, _)
GreedyEmission(sorted, i, emitted) ==
    IF i > Len(sorted) THEN emitted
    ELSE IF \E e \in 1..Len(emitted) :
               /\ emitted[e].class_id = sorted[i].class_id
               /\ IoUExceedsThreshold(emitted[e], sorted[i])
         THEN GreedyEmission(sorted, i + 1, emitted)
         ELSE GreedyEmission(sorted, i + 1, Append(emitted, sorted[i]))

\* the confidence-descending arrangements of a list (ties in any order)
SortedArrangements(s) ==
    {a \in {Permutation(s, p) : p \in Bijections(Len(s))} : NonIncreasing(a)}

\* the records of the example, in tenths, and the output it names
ExampleRaw ==
    RawBuffer(<<0, 0, 100, 100, 9, 0>> \o <<10, 10, 90, 90, 8, 0>>
                  \o <<500, 500, 600, 600, 7, 10>>, 0)
ExampleOutput ==
    << [x_min |-> 0, y_min |-> 0, x_max |-> 100, y_max |-> 100,
        confidence |-> 9, class_id |-> 0],
       [x_min |-> 500, y_min |-> 500, x_max |-> 600, y_max |-> 600,
        confidence |-> 7, class_id |-> 1] >>

\* C19: for every raw output buffer the returned list is in non-increasing
\* confidence order and is exactly the greedy emission over a
\* confidence-sorted arrangement of the records that passed the filter; the
\* boundary copies it out in that order; and for the example records the
\* list is [(0,0,10,10,0.9,0), (50,50,60,60,0.7,1)], in that order.
C19_EmissionOrder ==
    \A t \in Threads :
        Decoded_(t) =>
            /\ NonIncreasing(ret[t].dets)
            /\ \E sorted \in SortedArrangements(Eligible(ret[t].raw)) :
                  ret[t].dets = GreedyEmission(sorted, 1, <<>>)
            /\ (ret[t].op = "detect" /\ ret[t].cap >= 0) =>
                  \A i \in 1..Len(ret[t].arr) :
                      ret[t].arr[i].written => ret[t].arr[i].det = ret[t].dets[i]
            /\ ret[t].raw = ExampleRaw => ret[t].dets = ExampleOutput

\* the example has been decoded and copied out whole
C19_Witness ==
    /\ Decoded_("A")
    /\ ret["A"].op = "detect"
    /\ ret["A"].raw = ExampleRaw
    /\ ret["A"].dets = ExampleOutput
    /\ ret["A"].val = 2
    /\ ret["A"].arr[1] = Written(ExampleOutput[1])
    /\ ret["A"].arr[2] = Written(ExampleOutput[2])

\* C20: the error slot of a thread is written only by a failing boundary
\* call of that thread.  A step changes a thread's slot only by finishing a
\* call of that thread that returns the failure sentinel, and the slot then
\* holds that call's message; a call that succeeds (create returning a
\* handle, get_input_info on a valid handle, detect or detect_people
\* returning >= 0), and every destroy and get_last_error, leaves the slot
\* as it was; get_last_error returns the slot, which is empty on a thread
\* that never had a failure.
C20_SlotWrittenOnlyOnFailure ==
    [][\A t \in Threads :
          /\ g_last_error'[t] # g_last_error[t] =>
                /\ Finishes(t)
                /\ ret'[t].err # NoError
                /\ g_last_error'[t] = ret'[t].err
                /\ ret'[t].op \in DetectOps \cup {"create", "get_input_info"}
                /\ ret'[t].op \in DetectOps => ret'[t].val = 0 - 1
                /\ ret'[t].op = "create" => ret'[t].val = NullHandle
          /\ (Finishes(t) /\ ret'[t].err = NoError) =>
                g_last_error'[t] = g_last_error[t]
          /\ (Finishes(t) /\ ret'[t].op \in {"destroy", "get_last_error"}) =>
                /\ ret'[t].err = NoError
                /\ g_last_error' = g_last_error
          /\ (Finishes(t) /\ ret'[t].op = "get_last_error") =>
                /\ ret'[t].str = g_last_error[t]
                /\ last_fail[t] = NoError => ret'[t].str = NoError]_vars

\* thread A alone: a call with the null handle failed, then a create
\* succeeded, and the slot still holds the message of the failure
C20_Witness ==
    /\ ret["B"] = NoRet
    /\ pc["B"] = "idle"
    /\ ret["A"].op = "create"
    /\ ret["A"].val # NullHandle
    /\ ret["A"].id = 2
    /\ g_last_error["A"] = MsgInvalidHandle

====
